---- MODULE Spec2Model ----
(***************************************************************************)
(* A model of the five D-Wave tutorial scripts of this repository.         *)
(*                                                                         *)
(* Every script is a straight-line program.  One behaviour of the model    *)
(* is one run of one script: Init picks the script, pc is the source line  *)
(* of the next statement, and every statement is one action.  The vendor   *)
(* SDK is the environment: a remote call either fails (the exception is    *)
(* not caught, so the run ends) or returns a result chosen from the        *)
(* results the SDK can return.                                             *)
(***************************************************************************)
EXTENDS Integers, Sequences, FiniteSets, TLC

VARIABLES
    script,            \* which script this run executes
    pc,                \* source line of the next statement
    status,            \* "running", "done" or "failed" (uncaught exception)
    err,               \* why the run failed: "none", "remote", "embedding"
    calls,             \* the lines of the sampler constructions and sample calls issued, in order
    nprinted,          \* number of lines written to standard output
    lastline,          \* the line written last
    Q,                 \* Python variable Q (a QUBO dict), <<>> while unbound
    Q_not,             \* Python variable Q_not, <<>> while unbound
    embedding,         \* Python variable embedding, <<>> while unbound
    sampler,           \* Python variable sampler
    sampler_embedded,  \* Python variable sampler_embedded
    csp,               \* Python variable csp: the set of constraints added
    bqm,               \* Python variable bqm
    solution,          \* Python variable solution (exact solver's sample set)
    response,          \* Python variable response (remote sample set)
    iter,              \* records the running for loop has still to yield
    min_energy,        \* Python variable min_energy (0 while unbound)
    total,             \* Python variable total (0 while unbound)
    valid,             \* Python variable valid
    invalid,           \* Python variable invalid
    data,              \* Python list data
    figure,            \* what plt.scatter was given, <<>> before the call
    graph              \* Python variables s5 / w5 / c5: the graph last built

vars == <<script, pc, status, err, calls, nprinted, lastline, Q, Q_not, embedding,
          sampler, sampler_embedded, csp, bqm, solution, response, iter,
          min_energy, total, valid, invalid, data, figure, graph>>

---------------------------------------------------------------------------
(* Bounds of the model *)

\* the reads one remote sample call asks for: stands for num_reads=5000
\* (num_reads=1000 in Multiple-Gate_Circuit.py)
NumReads == 3

Bit == {0, 1}
Unbound == <<>>

---------------------------------------------------------------------------
(* Python values and operators *)

PyInt(n) == <<"int", n>>
PyBool(b) == <<"bool", IF b THEN 1 ELSE 0>>
\* truth value testing: 0 and False are false
Truthy(x) == x[2] # 0
\* not x: always a bool
PyNot(x) == PyBool(~Truthy(x))
\* x and y: x when x is false, else y
PyAnd(x, y) == IF Truthy(x) THEN y ELSE x
\* x or y: x when x is true, else y
PyOr(x, y) == IF Truthy(x) THEN x ELSE y
\* x == y on bools and ints compares the numbers (True == 1)
PyEq(x, y) == x[2] = y[2]

RECURSIVE SumOver(_, _)
\* sum(f[x] for x in S)
SumOver(S, f) ==
    IF S = {} THEN 0
    ELSE LET x == CHOOSE y \in S : TRUE
         IN f[x] + SumOver(S \ {x}, f)

\* all assignments of the variables vs to 0/1
Assignments(vs) == [vs -> Bit]

---------------------------------------------------------------------------
(* QUBOs (Boolean_AND_Gate.py, Boolean_NOT_Gate.py) *)

\* Boolean_AND_Gate.py line 8
Q_and_first == (<<"x1", "x2">> :> 1) @@ (<<"x1", "z">> :> -2) @@
               (<<"x2", "z">> :> -2) @@ (<<"z", "z">> :> 3)
\* line 50 with the weight of (x1, z) mistyped
Q_and_second_typo == (<<"x1", "x2">> :> 1) @@ (<<"x1", "z">> :> -1) @@
                     (<<"x2", "z">> :> -2) @@ (<<"z", "z">> :> 3)
\* Boolean_AND_Gate.py line 50
Q_and_second == (<<"x1", "x2">> :> 1) @@ (<<"x1", "z">> :> -2) @@
                (<<"x2", "z">> :> -2) @@ (<<"z", "z">> :> 3)
\* Boolean_AND_Gate.py line 25
Q_not_literal == (<<"x", "x">> :> -1) @@ (<<"x", "z">> :> 2) @@
                 (<<"z", "x">> :> 0) @@ (<<"z", "z">> :> -1)
\* line 13 with the weight of (x, z) mistyped
Q_not_gate_typo == (<<"x", "x">> :> -1) @@ (<<"x", "z">> :> 1) @@
                   (<<"z", "x">> :> 0) @@ (<<"z", "z">> :> -1)
\* Boolean_NOT_Gate.py line 13
Q_not_gate == (<<"x", "x">> :> -1) @@ (<<"x", "z">> :> 2) @@
              (<<"z", "x">> :> 0) @@ (<<"z", "z">> :> -1)

\* the variables a QUBO dict mentions
QuboVariables(Qm) == {p[1] : p \in DOMAIN Qm} \cup {p[2] : p \in DOMAIN Qm}

\* the energy sample_qubo reports for sample s: the sum of Qm[u,v]*s[u]*s[v]
QuboEnergy(Qm, s) ==
    SumOver(DOMAIN Qm, [p \in DOMAIN Qm |-> Qm[p] * s[p[1]] * s[p[2]]])

---------------------------------------------------------------------------
(* Sample sets *)

\* num_occurrences of a record some read landed on
Occurrences == 1..NumReads

RECURSIVE DataDescending(_)
\* the records sorted the other way round, highest energy first
DataDescending(S) ==
    IF S = {} THEN <<>>
    ELSE LET m == CHOOSE r \in S : \A q \in S : r.energy >= q.energy
         IN <<m>> \o DataDescending(S \ {m})

RECURSIVE Data(_)
\* SampleSet.data(): the records, sorted by energy, lowest first
Data(S) ==
    IF S = {} THEN <<>>
    ELSE LET m == CHOOSE r \in S : \A q \in S : r.energy <= q.energy
         IN <<m>> \o Data(S \ {m})

\* The sample sets a remote sampler can return for a problem whose samples
\* are drawn from pool and whose energy is energy[s]: equal samples are
\* aggregated into one record, and the records' num_occurrences, each drawn
\* from occs, add up to the number of reads.
RemoteSampleSets(pool, energy, occs) ==
    UNION { { { [sample |-> s, energy |-> energy[s], num_occurrences |-> occ[s]] : s \in smp }
              : occ \in {o \in [smp -> occs] : SumOver(smp, o) = NumReads} }
            : smp \in {T \in SUBSET pool : Cardinality(T) \in 1..NumReads} }

---------------------------------------------------------------------------
(* Constraint satisfaction problems and their BQMs (dwavebinarycsp) *)

Range(f) == {f[i] : i \in DOMAIN f}

\* a constraint holds on sample s when the values of its variables are one
\* of its configurations
Check(c, s) == [i \in DOMAIN c.variables |-> s[c.variables[i]]] \in c.configurations

\* csp.check(sample): every constraint holds
CspCheck(cs, s) == \A c \in cs : Check(c, s)

CspVariables(cs) == UNION {Range(c.variables) : c \in cs}

\* operator.ne(x, y)
ne(x, y) == PyBool(x[2] # y[2])

\* csp.add_constraint(operator.ne, [u, v])
NeConstraint(u, v) ==
    [variables |-> <<u, v>>,
     configurations |-> {t \in [1..2 -> Bit] : Truthy(ne(PyInt(t[1]), PyInt(t[2])))}]

\* gates.or_gate([in1, in2, out]): out = in1 OR in2
or_gate(in1, in2, out) ==
    [variables |-> <<in1, in2, out>>,
     configurations |-> {t \in [1..3 -> Bit] : t[3] = IF t[1] = 1 \/ t[2] = 1 THEN 1 ELSE 0}]

\* gates.and_gate([in1, in2, out]): out = in1 AND in2
and_gate(in1, in2, out) ==
    [variables |-> <<in1, in2, out>>,
     configurations |-> {t \in [1..3 -> Bit] : t[3] = IF t[1] = 1 /\ t[2] = 1 THEN 1 ELSE 0}]

\* ground energies and classical gaps dwavebinarycsp.stitch can settle on:
\* the gap is at least min_classical_gap, 2 by default
GroundEnergies == {-2, 0}
ClassicalGaps == {2}

\* dwavebinarycsp.stitch(csp): a BQM that has its ground energy exactly on the
\* samples that satisfy every constraint, and lies at least one classical gap
\* higher for each constraint a sample violates
Stitch(cs) == {[csp |-> cs, ground |-> g, gap |-> k] : g \in GroundEnergies, k \in ClassicalGaps}

\* bqm.energy(sample)
BqmEnergy(b, s) == b.ground + b.gap * Cardinality({c \in b.csp : ~Check(c, s)})

BqmVariables(b) == CspVariables(b.csp)

\* ExactSolver().sample(bqm): one record for every assignment of the variables
ExactSample(b) ==
    {[sample |-> s, energy |-> BqmEnergy(b, s), num_occurrences |-> 1]
        : s \in Assignments(BqmVariables(b))}

---------------------------------------------------------------------------
(* The QPU's working graph and minor-embeddings (Boolean_AND_Gate.py) *)

\* one Chimera unit cell: qubits 0..3 are each coupled to each of 4..7
Qubits == 0..7
Coupled(p, q) == \/ p \in 0..3 /\ q \in 4..7
                 \/ p \in 4..7 /\ q \in 0..3

\* sampler.adjacency[q]
Neighbours(q) == {p \in Qubits : Coupled(p, q)}

RECURSIVE Reach(_, _)
\* the qubits of chain reachable from the set seen through couplers inside chain
Reach(seen, chain) ==
    LET more == {q \in chain \ seen : \E p \in seen : Coupled(p, q)}
    IN IF more = {} THEN seen ELSE Reach(seen \cup more, chain)

ChainConnected(chain) ==
    /\ chain # {}
    /\ chain \subseteq Qubits
    /\ \E p \in chain : Reach({p}, chain) = chain

\* Boolean_AND_Gate.py line 34
embedding_not == ("x" :> {0}) @@ ("z" :> {4})
\* line 45 with z on two qubits of the same side of the cell
embedding_and_split == ("x1" :> {1}) @@ ("x2" :> {5}) @@ ("z" :> {0, 2})
\* Boolean_AND_Gate.py line 45
embedding_and == ("x1" :> {1}) @@ ("x2" :> {5}) @@ ("z" :> {0, 4})

\* FixedEmbeddingComposite.adjacency: two variables are adjacent when some
\* qubit of one chain is coupled to some qubit of the other
LogicalAdjacency(emb) ==
    [u \in DOMAIN emb |->
        {v \in DOMAIN emb \ {u} : \E p \in emb[u], q \in emb[v] : Coupled(p, q)}]

\* what embedding a QUBO needs: a connected chain for every variable, disjoint
\* chains, and a coupler for every interaction
ValidEmbedding(emb, Qm) ==
    /\ QuboVariables(Qm) \subseteq DOMAIN emb
    /\ \A u \in DOMAIN emb : ChainConnected(emb[u])
    /\ \A u, v \in DOMAIN emb : u # v => emb[u] \cap emb[v] = {}
    /\ \A p \in DOMAIN Qm : p[1] # p[2] => p[2] \in LogicalAdjacency(emb)[p[1]]

\* sampler objects: their class and, for a fixed embedding, the embedding
\* DWaveSampler()
DWaveSampler == [class |-> "DWaveSampler", embedding |-> <<>>]
\* ExactSolver()
ExactSolver == [class |-> "ExactSolver", embedding |-> <<>>]
\* EmbeddingComposite(sampler): the embedding is found at sample time
EmbeddingComposite == [class |-> "EmbeddingComposite", embedding |-> <<>>]
\* FixedEmbeddingComposite(sampler, emb)
FixedEmbeddingComposite(emb) == [class |-> "FixedEmbeddingComposite", embedding |-> emb]
\* a name not bound to a sampler yet
NoSampler == [class |-> "unbound", embedding |-> <<>>]

---------------------------------------------------------------------------
(* Statements common to the scripts *)

At(s, l) == script = s /\ status = "running" /\ pc = l

\* print(...)
Stdout(line) == nprinted' = nprinted + 1 /\ lastline' = line

\* an exception that is caught and the statement run again
RaiseSwallowed(reason) == status' = status /\ err' = err /\ pc' = pc
\* an exception nothing catches: the interpreter ends the run
Raise(reason) == status' = "failed" /\ err' = reason /\ pc' = pc

\* the last line of each script
LastLine(s) ==
    CASE s = "Boolean_AND_Gate" -> 65
      [] s = "Boolean_NOT_Gate" -> 16
      [] s = "Vertex_Cover" -> 33
      [] s = "Constrained_Scheduling" -> 69
      [] s = "Multiple_Gate_Circuit" -> 72

\* control moves on to line l; past the last line the run is over
Goto(l) ==
    /\ pc' = l
    /\ status' = IF l > LastLine(script) THEN "done" ELSE status
    /\ err' = err

gateVars == <<Q, Q_not, embedding, sampler_embedded>>
cspVars == <<csp, bqm, solution, min_energy, total>>
circuitVars == <<valid, invalid, data, figure>>
outVars == <<nprinted, lastline>>

\* the sample sets sample_qubo can return for each QUBO of the gate scripts:
\* any assignment of the QUBO's variables can be read, with the QUBO's energy
QuboSampleSets ==
    [Qm \in {Q_and_first, Q_and_second, Q_not_literal, Q_not_gate} |->
        RemoteSampleSets(
            Assignments(QuboVariables(Qm)),
            [s \in Assignments(QuboVariables(Qm)) |-> QuboEnergy(Qm, s)],
            Occurrences)]

\* response = smp.sample_qubo(Qm, num_reads=5000[, chain_strength=..]) at line l.
\* The call raises when the fixed embedding does not fit the problem or the
\* service fails; else it returns a sample set.  chain_strength changes which
\* samples are likely, not which are possible.
SampleQubo(l, smp, Qm) ==
    /\ calls' = Append(calls, l)
    /\ \/ /\ smp.class = "FixedEmbeddingComposite"
          /\ ~ValidEmbedding(smp.embedding, Qm)
          /\ Raise("embedding")
          /\ UNCHANGED response
       \/ /\ Raise("remote")
          /\ UNCHANGED response
       \/ /\ smp.class = "FixedEmbeddingComposite" => ValidEmbedding(smp.embedding, Qm)
          /\ \E r \in QuboSampleSets[Qm] : response' = r
          /\ Goto(l + 1)
    /\ UNCHANGED <<script, outVars, gateVars, sampler, cspVars, iter, circuitVars, graph>>

\* for datum in response.data([...]):   (line l; the body is line l + 1)
ForResponse(l) ==
    /\ iter' = Data(response)
    /\ Goto(l + 1)
    /\ UNCHANGED <<script, calls, outVars, gateVars, sampler, cspVars, response,
                   circuitVars, graph>>

\*     print(datum.sample, "Energy: ", datum.energy, "Occurrences: ", datum.num_occurrences)
\* at line l; after the last record control moves on to line next
WriteDatum(l, next) ==
    /\ IF iter = <<>>
       THEN /\ Goto(next)
            /\ UNCHANGED <<iter, outVars>>
       ELSE /\ Stdout(<<"datum", Head(iter).sample, Head(iter).energy,
                        Head(iter).num_occurrences>>)
            /\ iter' = Tail(iter)
            /\ UNCHANGED <<pc, status, err>>
    /\ UNCHANGED <<script, calls, gateVars, sampler, cspVars, response,
                   circuitVars, graph>>

\* sampler_embedded = FixedEmbeddingComposite(sampler, emb) at line l
BindFixedEmbedding(l, emb) ==
    /\ calls' = Append(calls, l)
    /\ sampler_embedded' = FixedEmbeddingComposite(emb)
    /\ Goto(l + 1)
    /\ UNCHANGED <<script, outVars, Q, Q_not, embedding, sampler, cspVars, response,
                   iter, circuitVars, graph>>

\* print(sampler_embedded.adjacency) at line l
WriteAdjacency(l, next) ==
    /\ Stdout(<<"adjacency", LogicalAdjacency(sampler_embedded.embedding)>>)
    /\ Goto(next)
    /\ UNCHANGED <<script, calls, gateVars, sampler, cspVars, response, iter,
                   circuitVars, graph>>

---------------------------------------------------------------------------
(* Boolean_AND_Gate.py *)

AND == "Boolean_AND_Gate"

\* line 8: Q = {...}
AND_8 ==
    /\ At(AND, 8)
    /\ Q' = Q_and_first
    /\ Goto(14)
    /\ UNCHANGED <<script, calls, outVars, Q_not, embedding, sampler_embedded, sampler,
                   cspVars, response, iter, circuitVars, graph>>

\* line 14: sampler = DWaveSampler()
AND_14 ==
    /\ At(AND, 14)
    /\ calls' = Append(calls, 14)
    /\ \/ Raise("remote") /\ UNCHANGED sampler
       \/ sampler' = DWaveSampler /\ Goto(15)
    /\ UNCHANGED <<script, outVars, gateVars, cspVars, response, iter, circuitVars, graph>>

\* line 15: sampler_embedded = EmbeddingComposite(sampler)
AND_15 ==
    /\ At(AND, 15)
    /\ calls' = Append(calls, 15)
    /\ sampler_embedded' = EmbeddingComposite
    /\ Goto(18)
    /\ UNCHANGED <<script, outVars, Q, Q_not, embedding, sampler, cspVars, response,
                   iter, circuitVars, graph>>

\* line 18: response = sampler_embedded.sample_qubo(Q, num_reads=5000)
AND_18 == At(AND, 18) /\ SampleQubo(18, sampler_embedded, Q)
\* lines 19-20: print every record
AND_19 == At(AND, 19) /\ ForResponse(19)
AND_20 == At(AND, 20) /\ WriteDatum(20, 25)

\* line 25: Q_not = {...}
AND_25 ==
    /\ At(AND, 25)
    /\ Q_not' = Q_not_literal
    /\ Goto(29)
    /\ UNCHANGED <<script, calls, outVars, Q, embedding, sampler_embedded, sampler,
                   cspVars, response, iter, circuitVars, graph>>

\* line 29: print(sampler.adjacency[sampler.nodelist[0]])
AND_29 ==
    /\ At(AND, 29)
    /\ Stdout(<<"adjacency", Neighbours(CHOOSE q \in Qubits : \A p \in Qubits : q <= p)>>)
    /\ Goto(34)
    /\ UNCHANGED <<script, calls, gateVars, sampler, cspVars, response, iter,
                   circuitVars, graph>>

\* line 34: sampler_embedded = FixedEmbeddingComposite(sampler, {'x': [0], 'z': [4]})
AND_34 == At(AND, 34) /\ BindFixedEmbedding(34, embedding_not)
\* line 35: print(sampler_embedded.adjacency)
AND_35 == At(AND, 35) /\ WriteAdjacency(35, 38)
\* line 38: response = sampler_embedded.sample_qubo(Q_not, num_reads=5000)
AND_38 == At(AND, 38) /\ SampleQubo(38, sampler_embedded, Q_not)
AND_39 == At(AND, 39) /\ ForResponse(39)
AND_40 == At(AND, 40) /\ WriteDatum(40, 45)

\* line 45: embedding = {'x1': {1}, 'x2': {5}, 'z': {0, 4}}
AND_45 ==
    /\ At(AND, 45)
    /\ embedding' = embedding_and
    /\ Goto(46)
    /\ UNCHANGED <<script, calls, outVars, Q, Q_not, sampler_embedded, sampler,
                   cspVars, response, iter, circuitVars, graph>>

\* line 46: sampler_embedded = FixedEmbeddingComposite(sampler, embedding)
AND_46 == At(AND, 46) /\ BindFixedEmbedding(46, embedding)
\* line 47: print(sampler_embedded.adjacency)
AND_47 == At(AND, 47) /\ WriteAdjacency(47, 50)

\* line 50: Q = {...}
AND_50 ==
    /\ At(AND, 50)
    /\ Q' = Q_and_second
    /\ Goto(51)
    /\ UNCHANGED <<script, calls, outVars, Q_not, embedding, sampler_embedded, sampler,
                   cspVars, response, iter, circuitVars, graph>>

\* line 51: response = sampler_embedded.sample_qubo(Q, num_reads=5000)
AND_51 == At(AND, 51) /\ SampleQubo(51, sampler_embedded, Q)
AND_52 == At(AND, 52) /\ ForResponse(52)
AND_53 == At(AND, 53) /\ WriteDatum(53, 61)

\* line 61: print(sampler.properties['extended_j_range'])
AND_61 ==
    /\ At(AND, 61)
    /\ Stdout(<<"extended_j_range">>)
    /\ Goto(62)
    /\ UNCHANGED <<script, calls, gateVars, sampler, cspVars, response, iter,
                   circuitVars, graph>>

\* line 62: sampler_embedded = FixedEmbeddingComposite(sampler, embedding)
AND_62 == At(AND, 62) /\ BindFixedEmbedding(62, embedding)
\* line 63: response = sampler_embedded.sample_qubo(Q, num_reads=5000, chain_strength=0.25)
AND_63 == At(AND, 63) /\ SampleQubo(63, sampler_embedded, Q)
AND_64 == At(AND, 64) /\ ForResponse(64)
AND_65 == At(AND, 65) /\ WriteDatum(65, 66)

AND_Next ==
    \/ AND_8 \/ AND_14 \/ AND_15 \/ AND_18 \/ AND_19 \/ AND_20 \/ AND_25 \/ AND_29
    \/ AND_34 \/ AND_35 \/ AND_38 \/ AND_39 \/ AND_40 \/ AND_45 \/ AND_46 \/ AND_47
    \/ AND_50 \/ AND_51 \/ AND_52 \/ AND_53 \/ AND_61 \/ AND_62 \/ AND_63 \/ AND_64
    \/ AND_65

---------------------------------------------------------------------------
(* Boolean_NOT_Gate.py *)

NOT == "Boolean_NOT_Gate"

\* line 10: sampler = EmbeddingComposite(DWaveSampler())
NOT_10 ==
    /\ At(NOT, 10)
    /\ calls' = Append(calls, 10)
    /\ \/ Raise("remote") /\ UNCHANGED sampler
       \/ sampler' = EmbeddingComposite /\ Goto(13)
    /\ UNCHANGED <<script, outVars, gateVars, cspVars, response, iter, circuitVars, graph>>

\* line 13: Q = {...}
NOT_13 ==
    /\ At(NOT, 13)
    /\ Q' = Q_not_gate
    /\ Goto(14)
    /\ UNCHANGED <<script, calls, outVars, Q_not, embedding, sampler_embedded, sampler,
                   cspVars, response, iter, circuitVars, graph>>

\* line 14: response = sampler.sample_qubo(Q, num_reads=5000)
NOT_14 == At(NOT, 14) /\ SampleQubo(14, sampler, Q)
\* lines 15-16: print every record
NOT_15 == At(NOT, 15) /\ ForResponse(15)
NOT_16 == At(NOT, 16) /\ WriteDatum(16, 17)

NOT_Next == NOT_10 \/ NOT_13 \/ NOT_14 \/ NOT_15 \/ NOT_16

---------------------------------------------------------------------------
(* Constrained_Scheduling.py *)

SCHED == "Constrained_Scheduling"

\* scheduling with the "not" of line 17 left out
scheduling_without_not(time, location, length, mandatory) ==
    IF Truthy(time)
    THEN PyAnd(location, mandatory)
    ELSE PyAnd(location, length)

\* lines 13-17: def scheduling(time, location, length, mandatory)
scheduling(time, location, length, mandatory) ==
    IF Truthy(time)
    THEN PyAnd(location, mandatory)
    ELSE PyAnd(PyNot(location), length)

\* line 23: the constraint csp.add_constraint builds from scheduling: the
\* configurations of the four variables on which the function is true
scheduling_constraint ==
    [variables |-> <<"time", "location", "length", "mandatory">>,
     configurations |->
        {t \in [1..4 -> Bit] :
            Truthy(scheduling(PyInt(t[1]), PyInt(t[2]), PyInt(t[3]), PyInt(t[4])))}]

\* lines 44-47 and 64-67: the four words of a solution line
Describe(sample) ==
    <<IF sample["time"] # 0 THEN "business hours" ELSE "evenings",
      IF sample["location"] # 0 THEN "office" ELSE "home",
      IF sample["length"] # 0 THEN "short" ELSE "long",
      IF sample["mandatory"] # 0 THEN "mandatory" ELSE "optional">>

\* line 22: csp = dwavebinarycsp.ConstraintSatisfactionProblem(dwavebinarycsp.BINARY)
SCHED_22 ==
    /\ At(SCHED, 22)
    /\ csp' = {}
    /\ Goto(23)
    /\ UNCHANGED <<script, calls, outVars, gateVars, sampler, bqm, solution, min_energy,
                   total, response, iter, circuitVars, graph>>

\* line 23: csp.add_constraint(scheduling, ['time', 'location', 'length', 'mandatory'])
SCHED_23 ==
    /\ At(SCHED, 23)
    /\ csp' = csp \cup {scheduling_constraint}
    /\ Goto(27)
    /\ UNCHANGED <<script, calls, outVars, gateVars, sampler, bqm, solution, min_energy,
                   total, response, iter, circuitVars, graph>>

\* lines 27-29: bqm = dwavebinarycsp.stitch(csp); bqm.linear; bqm.quadratic
\* (the two attribute reads have no effect)
SCHED_27 ==
    /\ At(SCHED, 27)
    /\ bqm' \in Stitch(csp)
    /\ Goto(33)
    /\ UNCHANGED <<script, calls, outVars, gateVars, sampler, csp, solution, min_energy,
                   total, response, iter, circuitVars, graph>>

\* line 33: sampler = ExactSolver()
SCHED_33 ==
    /\ At(SCHED, 33)
    /\ calls' = Append(calls, 33)
    /\ sampler' = ExactSolver
    /\ Goto(34)
    /\ UNCHANGED <<script, outVars, gateVars, cspVars, response, iter, circuitVars, graph>>

\* line 34: solution = sampler.sample(bqm)
SCHED_34 ==
    /\ At(SCHED, 34)
    /\ calls' = Append(calls, 34)
    /\ solution' = ExactSample(bqm)
    /\ Goto(38)
    /\ UNCHANGED <<script, outVars, gateVars, sampler, csp, bqm, min_energy, total,
                   response, iter, circuitVars, graph>>

\* line 38 reading the last record instead of the first
SCHED_38_last ==
    /\ At(SCHED, 38)
    /\ min_energy' = Data(solution)[Len(Data(solution))].energy
    /\ Goto(39)
    /\ UNCHANGED <<script, calls, outVars, gateVars, sampler, csp, bqm, solution, total,
                   response, iter, circuitVars, graph>>

\* line 38: min_energy = next(solution.data(['energy']))[0]
SCHED_38 ==
    /\ At(SCHED, 38)
    /\ min_energy' = Head(Data(solution)).energy
    /\ Goto(39)
    /\ UNCHANGED <<script, calls, outVars, gateVars, sampler, csp, bqm, solution, total,
                   response, iter, circuitVars, graph>>

\* line 39: print(min_energy)
SCHED_39 ==
    /\ At(SCHED, 39)
    /\ Stdout(<<"min_energy", min_energy>>)
    /\ Goto(42)
    /\ UNCHANGED <<script, calls, gateVars, sampler, cspVars, response, iter,
                   circuitVars, graph>>

\* line 42: for sample, energy in solution.data(['sample', 'energy']):
SCHED_42 ==
    /\ At(SCHED, 42)
    /\ iter' = Data(solution)
    /\ Goto(43)
    /\ UNCHANGED <<script, calls, outVars, gateVars, sampler, cspVars, response,
                   circuitVars, graph>>

\* lines 43-48: one pass of the classical loop's body
SCHED_43 ==
    /\ At(SCHED, 43)
    /\ IF iter = <<>>
       THEN /\ Goto(53)
            /\ UNCHANGED <<iter, outVars>>
       ELSE /\ IF Head(iter).energy = min_energy
               THEN Stdout(<<"solution", Describe(Head(iter).sample)>>)
               ELSE UNCHANGED outVars
            /\ iter' = Tail(iter)
            /\ UNCHANGED <<pc, status, err>>
    /\ UNCHANGED <<script, calls, gateVars, sampler, cspVars, response, circuitVars, graph>>

\* line 53: sampler = EmbeddingComposite(DWaveSampler())
SCHED_53 ==
    /\ At(SCHED, 53)
    /\ calls' = Append(calls, 53)
    /\ \/ Raise("remote") /\ UNCHANGED sampler
       \/ sampler' = EmbeddingComposite /\ Goto(56)
    /\ UNCHANGED <<script, outVars, gateVars, cspVars, response, iter, circuitVars, graph>>

\* line 56: response = sampler.sample(bqm, num_reads=5000)
SCHED_56 ==
    /\ At(SCHED, 56)
    /\ calls' = Append(calls, 56)
    /\ \/ Raise("remote") /\ UNCHANGED response
       \/ /\ \E r \in RemoteSampleSets(
                    Assignments(BqmVariables(bqm)),
                    [s \in Assignments(BqmVariables(bqm)) |-> BqmEnergy(bqm, s)],
                    Occurrences) : response' = r
          /\ Goto(60)
    /\ UNCHANGED <<script, outVars, gateVars, sampler, cspVars, iter, circuitVars, graph>>

\* line 60: total = 0
SCHED_60 ==
    /\ At(SCHED, 60)
    /\ total' = 0
    /\ Goto(61)
    /\ UNCHANGED <<script, calls, outVars, gateVars, sampler, csp, bqm, solution,
                   min_energy, response, iter, circuitVars, graph>>

\* line 61: for sample, energy, occurrences in response.data([...]):
SCHED_61 ==
    /\ At(SCHED, 61)
    /\ iter' = Data(response)
    /\ Goto(62)
    /\ UNCHANGED <<script, calls, outVars, gateVars, sampler, cspVars, response,
                   circuitVars, graph>>

\* lines 62-68 with total updated inside the if
SCHED_62_inside ==
    /\ At(SCHED, 62)
    /\ IF iter = <<>>
       THEN /\ Goto(69)
            /\ UNCHANGED <<iter, outVars, total>>
       ELSE /\ IF Head(iter).energy = min_energy
               THEN /\ total' = total + Head(iter).num_occurrences
                    /\ Stdout(<<"found", Head(iter).num_occurrences,
                                Describe(Head(iter).sample)>>)
               ELSE UNCHANGED <<outVars, total>>
            /\ iter' = Tail(iter)
            /\ UNCHANGED <<pc, status, err>>
    /\ UNCHANGED <<script, calls, gateVars, sampler, csp, bqm, solution, min_energy,
                   response, circuitVars, graph>>

\* lines 62-68: one pass of the remote loop's body
SCHED_62 ==
    /\ At(SCHED, 62)
    /\ IF iter = <<>>
       THEN /\ Goto(69)
            /\ UNCHANGED <<iter, outVars, total>>
       ELSE /\ total' = total + Head(iter).num_occurrences
            /\ IF Head(iter).energy = min_energy
               THEN Stdout(<<"found", Head(iter).num_occurrences,
                             Describe(Head(iter).sample)>>)
               ELSE UNCHANGED outVars
            /\ iter' = Tail(iter)
            /\ UNCHANGED <<pc, status, err>>
    /\ UNCHANGED <<script, calls, gateVars, sampler, csp, bqm, solution, min_energy,
                   response, circuitVars, graph>>

\* line 69: print("Total occurrences: ", total)
SCHED_69 ==
    /\ At(SCHED, 69)
    /\ Stdout(<<"Total occurrences: ", total>>)
    /\ Goto(70)
    /\ UNCHANGED <<script, calls, gateVars, sampler, cspVars, response, iter,
                   circuitVars, graph>>

SCHED_Next ==
    \/ SCHED_22 \/ SCHED_23 \/ SCHED_27 \/ SCHED_33 \/ SCHED_34 \/ SCHED_38 \/ SCHED_39
    \/ SCHED_42 \/ SCHED_43 \/ SCHED_53 \/ SCHED_56 \/ SCHED_60 \/ SCHED_61 \/ SCHED_62
    \/ SCHED_69

---------------------------------------------------------------------------
(* Multiple-Gate_Circuit.py *)

CIRC == "Multiple_Gate_Circuit"

\* logic_circuit with gate 6 wired to or2 instead of or4
logic_circuit_miswired(a, b, c, d, z) ==
    LET not1 == PyNot(b)
        or2 == PyOr(b, c)
        and3 == PyAnd(a, not1)
        or4 == PyOr(or2, d)
        and5 == PyAnd(and3, or4)
        not6 == PyNot(or2)
        or7 == PyOr(and5, not6)
    IN PyBool(PyEq(z, or7))

\* lines 7-15: def logic_circuit(a, b, c, d, z)
logic_circuit(a, b, c, d, z) ==
    LET not1 == PyNot(b)
        or2 == PyOr(b, c)
        and3 == PyAnd(a, not1)
        or4 == PyOr(or2, d)
        and5 == PyAnd(and3, or4)
        not6 == PyNot(or4)
        or7 == PyOr(and5, not6)
    IN PyBool(PyEq(z, or7))

\* line 18: the constraint csp.add_constraint builds from logic_circuit
logic_circuit_constraint ==
    [variables |-> <<"a", "b", "c", "d", "z">>,
     configurations |->
        {t \in [1..5 -> Bit] :
            Truthy(logic_circuit(PyInt(t[1]), PyInt(t[2]), PyInt(t[3]), PyInt(t[4]),
                                 PyInt(t[5])))}]

\* lines 26-32: the constraint each add_constraint call adds
GateAt(l) ==
    CASE l = 26 -> NeConstraint("b", "not1")
      [] l = 27 -> or_gate("b", "c", "or2")
      [] l = 28 -> and_gate("a", "not1", "and3")
      [] l = 29 -> or_gate("d", "or2", "or4")
      [] l = 30 -> and_gate("and3", "or4", "and5")
      [] l = 31 -> NeConstraint("or4", "not6")
      [] l = 32 -> or_gate("and5", "not6", "z")

\* the seven gates of the second formulation
GateCsp == {GateAt(l) : l \in 26..32}

\* The variables on which the records of one response differ.  A response
\* holds readings of one circuit input: its records agree with the circuit on
\* every gate that involves none of these variables.
FreeVars == {"not6", "z"}

CircuitPools(cs) ==
    LET fixed == {c \in cs : Range(c.variables) \cap FreeVars = {}}
        inputs == CspVariables(cs) \ UNION {{c.variables[Len(c.variables)]} : c \in cs}
        ok == {s \in Assignments(CspVariables(cs)) : CspCheck(fixed, s)}
    IN { {s \in ok : \A v \in inputs : s[v] = i[v]} : i \in Assignments(inputs) }

\* num_occurrences of a record of the circuit's response: the classification
\* loop takes records of any non-negative num_occurrences, so a record that
\* no read landed on is let in
CircuitOccurrences == 0..NumReads

\* line 17 and line 25: csp = dwavebinarycsp.ConstraintSatisfactionProblem(dwavebinarycsp.BINARY)
NewCsp(l) ==
    /\ csp' = {}
    /\ Goto(l + 1)
    /\ UNCHANGED <<script, calls, outVars, gateVars, sampler, bqm, solution, min_energy,
                   total, response, iter, circuitVars, graph>>

CIRC_17 == At(CIRC, 17) /\ NewCsp(17)

\* line 18: csp.add_constraint(logic_circuit, ['a', 'b', 'c', 'd', 'z'])
CIRC_18 ==
    /\ At(CIRC, 18)
    /\ csp' = csp \cup {logic_circuit_constraint}
    /\ Goto(25)
    /\ UNCHANGED <<script, calls, outVars, gateVars, sampler, bqm, solution, min_energy,
                   total, response, iter, circuitVars, graph>>

CIRC_25 == At(CIRC, 25) /\ NewCsp(25)

\* lines 26-32: csp.add_constraint(<gate>)
CIRC_AddGate ==
    \E l \in 26..32 :
        /\ At(CIRC, l)
        /\ csp' = csp \cup {GateAt(l)}
        /\ Goto(IF l = 32 THEN 35 ELSE l + 1)
        /\ UNCHANGED <<script, calls, outVars, gateVars, sampler, bqm, solution,
                       min_energy, total, response, iter, circuitVars, graph>>

\* line 35: bqm = dwavebinarycsp.stitch(csp)
CIRC_35 ==
    /\ At(CIRC, 35)
    /\ bqm' \in Stitch(csp)
    /\ Goto(42)
    /\ UNCHANGED <<script, calls, outVars, gateVars, sampler, csp, solution, min_energy,
                   total, response, iter, circuitVars, graph>>

\* line 42: sampler = EmbeddingComposite(DWaveSampler())
CIRC_42 ==
    /\ At(CIRC, 42)
    /\ calls' = Append(calls, 42)
    /\ \/ Raise("remote") /\ UNCHANGED sampler
       \/ sampler' = EmbeddingComposite /\ Goto(45)
    /\ UNCHANGED <<script, outVars, gateVars, cspVars, response, iter, circuitVars, graph>>

\* line 45: response = sampler.sample(bqm, num_reads=1000)
CIRC_45 ==
    /\ At(CIRC, 45)
    /\ calls' = Append(calls, 45)
    /\ \/ Raise("remote") /\ UNCHANGED response
       \/ /\ \E pool \in CircuitPools(bqm.csp) :
             \E r \in RemoteSampleSets(pool, [s \in pool |-> BqmEnergy(bqm, s)],
                                       CircuitOccurrences) : response' = r
          /\ Goto(48)
    /\ UNCHANGED <<script, outVars, gateVars, sampler, cspVars, iter, circuitVars, graph>>

\* line 48: valid, invalid, data = 0, 0, []
CIRC_48 ==
    /\ At(CIRC, 48)
    /\ valid' = 0
    /\ invalid' = 0
    /\ data' = <<>>
    /\ Goto(49)
    /\ UNCHANGED <<script, calls, outVars, gateVars, sampler, cspVars, response, iter,
                   figure, graph>>

\* line 49: for datum in response.data(['sample', 'energy', 'num_occurrences']):
CIRC_49 ==
    /\ At(CIRC, 49)
    /\ iter' = Data(response)
    /\ Goto(50)
    /\ UNCHANGED <<script, calls, outVars, gateVars, sampler, cspVars, response,
                   circuitVars, graph>>

\* one entry for a record, whatever its num_occurrences
AppendEntriesOnce(list, datum, tag) ==
    Append(list, <<datum.sample, datum.energy, tag>>)

\* lines 52-53 and 56-57: for i in range(n): data.append((sample, energy, tag))
AppendEntries(list, datum, tag) ==
    list \o [i \in 1..datum.num_occurrences |-> <<datum.sample, datum.energy, tag>>]

\* lines 50-57: one pass of the classification loop's body
CIRC_50 ==
    /\ At(CIRC, 50)
    /\ IF iter = <<>>
       THEN /\ Goto(58)
            /\ UNCHANGED <<iter, valid, invalid, data>>
       ELSE /\ IF CspCheck(csp, Head(iter).sample)
               THEN /\ valid' = valid + Head(iter).num_occurrences
                    /\ data' = AppendEntries(data, Head(iter), "1")
                    /\ UNCHANGED invalid
               ELSE /\ invalid' = invalid + Head(iter).num_occurrences
                    /\ data' = AppendEntries(data, Head(iter), "0")
                    /\ UNCHANGED valid
            /\ iter' = Tail(iter)
            /\ UNCHANGED <<pc, status, err>>
    /\ UNCHANGED <<script, calls, outVars, gateVars, sampler, cspVars, response, figure,
                   graph>>

\* line 58: print(valid, invalid)
CIRC_58 ==
    /\ At(CIRC, 58)
    /\ Stdout(<<"valid, invalid", valid, invalid>>)
    /\ Goto(62)
    /\ UNCHANGED <<script, calls, gateVars, sampler, cspVars, response, iter,
                   circuitVars, graph>>

\* line 62: print(next(response.samples()))
CIRC_62 ==
    /\ At(CIRC, 62)
    /\ Stdout(<<"sample", Head(Data(response)).sample>>)
    /\ Goto(66)
    /\ UNCHANGED <<script, calls, gateVars, sampler, cspVars, response, iter,
                   circuitVars, graph>>

\* lines 66-69: plt.ion(); plt.scatter(range(len(data)), [x[1] for x in data],
\*   c=['y' if (x[2] == '1') else 'r' for x in data], marker='.'); the axis labels
CIRC_66 ==
    /\ At(CIRC, 66)
    /\ figure' = [x |-> [i \in 1..Len(data) |-> i - 1],
                  y |-> [i \in 1..Len(data) |-> data[i][2]],
                  c |-> [i \in 1..Len(data) |-> IF data[i][3] = "1" THEN "y" ELSE "r"]]
    /\ Goto(71)
    /\ UNCHANGED <<script, calls, outVars, gateVars, sampler, cspVars, response, iter,
                   valid, invalid, data, graph>>

\* lines 71-72: print every record (its chain_break_fraction is read by no
\* statement and is left out of the record)
CIRC_71 == At(CIRC, 71) /\ ForResponse(71)
CIRC_72 == At(CIRC, 72) /\ WriteDatum(72, 73)

CIRC_Next ==
    \/ CIRC_17 \/ CIRC_18 \/ CIRC_25 \/ CIRC_AddGate \/ CIRC_35 \/ CIRC_42 \/ CIRC_45
    \/ CIRC_48 \/ CIRC_49 \/ CIRC_50 \/ CIRC_58 \/ CIRC_62 \/ CIRC_66 \/ CIRC_71
    \/ CIRC_72

---------------------------------------------------------------------------
(* Vertex_Cover.py *)

VC == "Vertex_Cover"

\* nx.star_graph(4): hub 0 joined to 1..4
star_graph_4 == [nodes |-> 0..4, edges |-> {{0, i} : i \in 1..4}]
\* nx.wheel_graph(5): hub 0 joined to the cycle 1-2-3-4-1
wheel_graph_5 ==
    [nodes |-> 0..4,
     edges |-> {{0, i} : i \in 1..4} \cup {{i, (i % 4) + 1} : i \in 1..4}]
\* nx.circular_ladder_graph(5): the cycles 0..4 and 5..9 and the rungs {i, i+5}
circular_ladder_graph_5 ==
    [nodes |-> 0..9,
     edges |-> {{i, (i + 1) % 5} : i \in 0..4}
               \cup {{5 + i, 5 + ((i + 1) % 5)} : i \in 0..4}
               \cup {{i, i + 5} : i \in 0..4}]

IsVertexCover(g, c) == \A e \in g.edges : e \cap c # {}

\* what dnx.min_vertex_cover can return: with the exact solver a vertex cover
\* of smallest size; with a remote sampler the complement of the set the best
\* read selects, which is any set of nodes
VertexCovers(g, smp) ==
    IF smp.class = "ExactSolver"
    THEN {c \in SUBSET g.nodes :
            /\ IsVertexCover(g, c)
            /\ \A d \in SUBSET g.nodes :
                   IsVertexCover(g, d) => Cardinality(c) <= Cardinality(d)}
    ELSE SUBSET g.nodes

\* s5 = ..., w5 = ..., c5 = ...
BuildGraph(g, next) ==
    /\ graph' = g
    /\ Goto(next)
    /\ UNCHANGED <<script, calls, outVars, gateVars, sampler, cspVars, response, iter,
                   circuitVars>>

\* print(dnx.min_vertex_cover(g, sampler)) at line l: one sample call
WriteCover(l, next) ==
    /\ calls' = Append(calls, l)
    /\ \/ /\ sampler.class # "ExactSolver"
          /\ Raise("remote")
          /\ UNCHANGED outVars
       \/ /\ \E c \in VertexCovers(graph, sampler) : Stdout(<<"cover", c>>)
          /\ Goto(next)
    /\ UNCHANGED <<script, gateVars, sampler, cspVars, response, iter, circuitVars, graph>>

\* line 9: s5 = nx.star_graph(4)
VC_9 == At(VC, 9) /\ BuildGraph(star_graph_4, 13)

\* line 13: sampler = ExactSolver()
VC_13 ==
    /\ At(VC, 13)
    /\ calls' = Append(calls, 13)
    /\ sampler' = ExactSolver
    /\ Goto(15)
    /\ UNCHANGED <<script, outVars, gateVars, cspVars, response, iter, circuitVars, graph>>

\* line 15: print(dnx.min_vertex_cover(s5, sampler))
VC_15 == At(VC, 15) /\ WriteCover(15, 21)

\* line 21: sampler = EmbeddingComposite(DWaveSampler())
VC_21 ==
    /\ At(VC, 21)
    /\ calls' = Append(calls, 21)
    /\ \/ Raise("remote") /\ UNCHANGED sampler
       \/ sampler' = EmbeddingComposite /\ Goto(22)
    /\ UNCHANGED <<script, outVars, gateVars, cspVars, response, iter, circuitVars, graph>>

\* line 22: print(dnx.min_vertex_cover(s5, sampler))
VC_22 == At(VC, 22) /\ WriteCover(22, 26)
\* line 26: w5 = nx.wheel_graph(5)
VC_26 == At(VC, 26) /\ BuildGraph(wheel_graph_5, 27)
\* lines 27, 28: print(dnx.min_vertex_cover(w5, sampler))
VC_27 == At(VC, 27) /\ WriteCover(27, 28)
VC_28 == At(VC, 28) /\ WriteCover(28, 31)
\* line 31: c5 = nx.circular_ladder_graph(5)
VC_31 == At(VC, 31) /\ BuildGraph(circular_ladder_graph_5, 32)
\* lines 32, 33: print(dnx.min_vertex_cover(c5, sampler))
VC_32 == At(VC, 32) /\ WriteCover(32, 33)
VC_33 == At(VC, 33) /\ WriteCover(33, 34)

VC_Next ==
    \/ VC_9 \/ VC_13 \/ VC_15 \/ VC_21 \/ VC_22 \/ VC_26 \/ VC_27 \/ VC_28 \/ VC_31
    \/ VC_32 \/ VC_33

---------------------------------------------------------------------------
(* The runs *)

Scripts == {AND, NOT, VC, SCHED, CIRC}

FirstLine(s) ==
    CASE s = "Boolean_AND_Gate" -> 8
      [] s = "Boolean_NOT_Gate" -> 10
      [] s = "Vertex_Cover" -> 9
      [] s = "Constrained_Scheduling" -> 22
      [] s = "Multiple_Gate_Circuit" -> 17

Init ==
    /\ script \in Scripts
    /\ pc = FirstLine(script)
    /\ status = "running"
    /\ err = "none"
    /\ calls = <<>>
    /\ nprinted = 0
    /\ lastline = <<"none">>
    /\ Q = Unbound
    /\ Q_not = Unbound
    /\ embedding = Unbound
    /\ sampler = NoSampler
    /\ sampler_embedded = NoSampler
    /\ csp = {}
    /\ bqm = Unbound
    /\ solution = {}
    /\ response = {}
    /\ iter = <<>>
    /\ min_energy = 0
    /\ total = 0
    /\ valid = 0
    /\ invalid = 0
    /\ data = <<>>
    /\ figure = Unbound
    /\ graph = Unbound

Next == AND_Next \/ NOT_Next \/ VC_Next \/ SCHED_Next \/ CIRC_Next

\* a run of any of the five scripts
Spec == Init /\ [][Next]_vars

\* a run of one of the two gate scripts
InitGates == Init /\ script \in {AND, NOT}
NextGates == AND_Next \/ NOT_Next
SpecGates == InitGates /\ [][NextGates]_vars

\* a run of Constrained_Scheduling.py
InitScheduling == Init /\ script = SCHED
SpecScheduling == InitScheduling /\ [][SCHED_Next]_vars

\* a run of Multiple-Gate_Circuit.py
InitCircuit == Init /\ script = CIRC
SpecCircuit == InitCircuit /\ [][CIRC_Next]_vars

---------------------------------------------------------------------------
(* Properties of the gate scripts *)

\* the lowest energy a QUBO takes over the assignments of its variables
GroundEnergy(Qm) ==
    LET es == {QuboEnergy(Qm, s) : s \in Assignments(QuboVariables(Qm))}
    IN CHOOSE e \in es : \A f \in es : e <= f

\* z = x1 AND x2
IsAndState(s) == s["z"] = IF s["x1"] = 1 /\ s["x2"] = 1 THEN 1 ELSE 0
\* z = NOT x
IsNotState(s) == s["z"] = 1 - s["x"]

\* the assignments of x1, x2, z that are states of an AND gate, and those of
\* x, z that are states of a NOT gate
AndStates == {s \in Assignments({"x1", "x2", "z"}) : IsAndState(s)}
NotStates == {s \in Assignments({"x", "z"}) : IsNotState(s)}

\* Qm has its ground energy on the assignments in good and on no other
EncodesGate(Qm, good) ==
    \A s \in Assignments(QuboVariables(Qm)) :
        /\ s \in good => QuboEnergy(Qm, s) = GroundEnergy(Qm)
        /\ s \notin good => QuboEnergy(Qm, s) > GroundEnergy(Qm)

\* C1: whenever Q is bound in Boolean_AND_Gate.py it encodes an AND gate: its
\* energy is lowest, and equal, on exactly the 4 assignments with
\* z = x1 AND x2 and strictly higher on the 4 others; the records a sample
\* call returns for Q carry the ground energy exactly when they are valid
\* AND states; and Q stays the mapping of line 8 after line 50 rebinds it.
C1_AndGateQubo ==
    (script = AND /\ DOMAIN Q # {}) =>
        /\ QuboVariables(Q) = {"x1", "x2", "z"}
        /\ EncodesGate(Q, AndStates)
        /\ Cardinality({s \in Assignments(QuboVariables(Q)) :
                            QuboEnergy(Q, s) = GroundEnergy(Q)}) = 4
        /\ \A r \in response :
               DOMAIN r.sample = QuboVariables(Q) =>
                   (r.energy = GroundEnergy(Q) <=> IsAndState(r.sample))
        /\ Q = Q_and_first

\* C1's case: line 50 has rebound Q and the sample call after it has returned
\* both a valid and an invalid AND state
C1_Witness ==
    /\ script = AND
    /\ pc = 52
    /\ \E r \in response : IsAndState(r.sample)
    /\ \E r \in response : ~IsAndState(r.sample)

\* C2: the QUBO of Boolean_NOT_Gate.py encodes a NOT gate: its energy is
\* lowest, and equal, on exactly the 2 assignments with z = NOT x and strictly
\* higher on the 2 with z = x, and the records returned for it carry the
\* ground energy exactly when z = NOT x; Q of Boolean_NOT_Gate.py and Q_not of
\* Boolean_AND_Gate.py are the same mapping.
C2_NotGateQubo ==
    /\ (script = NOT /\ DOMAIN Q # {}) =>
           /\ QuboVariables(Q) = {"x", "z"}
           /\ EncodesGate(Q, NotStates)
           /\ QuboEnergy(Q, [x |-> 0, z |-> 1]) = QuboEnergy(Q, [x |-> 1, z |-> 0])
           /\ \A r \in response : r.energy = GroundEnergy(Q) <=> IsNotState(r.sample)
           /\ Q = Q_not_literal
    /\ (script = AND /\ DOMAIN Q_not # {}) =>
           /\ EncodesGate(Q_not, NotStates)
           /\ Q_not = Q_not_gate

\* C2's case: the NOT script's sample call has returned a record with
\* z = NOT x and a record with z = x
C2_Witness ==
    /\ script = NOT
    /\ pc = 15
    /\ \E r \in response : IsNotState(r.sample)
    /\ \E r \in response : ~IsNotState(r.sample)

\* C8: the manual embeddings of Boolean_AND_Gate.py are valid on the unit
\* cell: qubits 0 and 4 of the NOT gate's embedding are coupled; the AND
\* gate's chains are pairwise disjoint, the chain of z is connected, and every
\* pair of variables Q couples has a coupler between the two chains, so the
\* adjacency the script prints joins all three variables; no sample call is
\* refused for its embedding.
C8_ManualEmbeddings ==
    script = AND =>
        /\ err # "embedding"
        /\ sampler_embedded.class = "FixedEmbeddingComposite" =>
               LET emb == sampler_embedded.embedding
               IN /\ \A u \in DOMAIN emb : ChainConnected(emb[u])
                  /\ \A u, v \in DOMAIN emb : u # v => emb[u] \cap emb[v] = {}
                  /\ \A u \in DOMAIN emb :
                         LogicalAdjacency(emb)[u] = DOMAIN emb \ {u}
                  /\ pc \in 35..40 =>
                         /\ emb = ("x" :> {0}) @@ ("z" :> {4})
                         /\ Coupled(0, 4)
                         /\ ValidEmbedding(emb, Q_not)
                  /\ pc \in 47..65 =>
                         /\ emb = ("x1" :> {1}) @@ ("x2" :> {5}) @@ ("z" :> {0, 4})
                         /\ Cardinality(emb["z"]) = 2
                         /\ \A p \in DOMAIN Q_and_second :
                                p[1] # p[2] =>
                                    \E a \in emb[p[1]], b \in emb[p[2]] : Coupled(a, b)
                  /\ pc \in 51..65 => ValidEmbedding(emb, Q)
        /\ (pc \in {38, 50} /\ status = "running") =>
               /\ lastline[1] = "adjacency"
               /\ \A u \in DOMAIN lastline[2] : lastline[2][u] = DOMAIN lastline[2] \ {u}

\* C8's case: the AND gate's embedding is bound, its adjacency is printed and
\* the sample call that uses it has returned
C8_Witness ==
    /\ script = AND
    /\ pc = 52
    /\ status = "running"
    /\ sampler_embedded.class = "FixedEmbeddingComposite"
    /\ DOMAIN sampler_embedded.embedding = {"x1", "x2", "z"}
    /\ response # {}

---------------------------------------------------------------------------
(* Properties of Constrained_Scheduling.py *)

SchedulingVars == {"time", "location", "length", "mandatory"}

\* the four constraints of the meeting policy, on sample s
MeetsPolicy(s) ==
    \/ s["time"] = 1 /\ s["location"] = 1 /\ s["mandatory"] = 1
    \/ s["time"] = 0 /\ s["location"] = 0 /\ s["length"] = 1

\* C3: once line 23 has added the constraint built from scheduling, the CSP
\* holds on an assignment exactly when the meeting policy is met: when
\* (time = 1, location = 1, mandatory = 1) or (time = 0, location = 0,
\* length = 1).  Exactly 4 of the 16 assignments satisfy it; in business hours
\* length does not matter and outside them mandatory does not matter.  The
\* classical loop prints a solution line for no other assignment.
C3_SchedulingPolicy ==
    (script = SCHED /\ pc > 23) =>
        /\ CspVariables(csp) = SchedulingVars
        /\ \A s \in Assignments(SchedulingVars) :
               /\ CspCheck(csp, s) <=> MeetsPolicy(s)
               /\ CspCheck(csp, s) <=>
                      Truthy(scheduling(PyInt(s["time"]), PyInt(s["location"]),
                                        PyInt(s["length"]), PyInt(s["mandatory"])))
               /\ s["time"] = 1 =>
                      (CspCheck(csp, s) <=> CspCheck(csp, [s EXCEPT !["length"] = 1 - @]))
               /\ s["time"] = 0 =>
                      (CspCheck(csp, s) <=> CspCheck(csp, [s EXCEPT !["mandatory"] = 1 - @]))
        /\ Cardinality({s \in Assignments(SchedulingVars) : CspCheck(csp, s)}) = 4
        /\ (pc = 43 /\ lastline[1] = "solution") =>
               \E s \in Assignments(SchedulingVars) :
                   MeetsPolicy(s) /\ lastline[2] = Describe(s)

\* C3's case: the constraint is in the CSP and the classical loop has just
\* printed a meeting outside business hours
C3_Witness ==
    /\ script = SCHED
    /\ pc = 43
    /\ Cardinality(csp) = 1
    /\ lastline = <<"solution", <<"evenings", "home", "short", "optional">>>>

\* the records the running loop has already passed over, given all of them
Consumed(all) == {all[i] : i \in 1..(Len(all) - Len(iter))}

\* C6: min_energy, read from the first record of the exact solver's result,
\* is the BQM's lowest value: no record of solution, which holds one record
\* for each of the 16 assignments, has a lower energy.  So the classical loop
\* prints a line for exactly the records of lowest energy, and at least one.
C6_MinEnergyIsLowest ==
    (script = SCHED /\ pc > 38) =>
        /\ {r.sample : r \in solution} = Assignments(SchedulingVars)
        /\ Cardinality(solution) = 16
        /\ \A r \in solution : min_energy <= r.energy
        /\ \E r \in solution : min_energy = r.energy
        /\ pc = 43 =>
               LET done == Consumed(Data(solution))
                   lowest == {r \in done : \A q \in solution : r.energy <= q.energy}
               IN /\ nprinted = 1 + Cardinality(lowest)
                  /\ nprinted > 1 =>
                         \E r \in lowest : lastline = <<"solution", Describe(r.sample)>>
        /\ pc \in 53..61 =>
               /\ nprinted = 1 + Cardinality({r \in solution :
                                                \A q \in solution : r.energy <= q.energy})
               /\ nprinted >= 2

\* C6's case: the classical loop is over and has printed the four solutions
C6_Witness ==
    /\ script = SCHED
    /\ pc = 53
    /\ nprinted = 5
    /\ \E r \in solution : r.energy > min_energy

\* C7 as stated: along the records a data iteration yields, energy never
\* rises from one record to the next
C7_EnergyNonIncreasing ==
    \A i \in 1..(Len(iter) - 1) : iter[i + 1].energy <= iter[i].energy

\* C7, amended: the records a data iteration yields are sorted by energy,
\* lowest first: energy never falls from one record to the next, and the
\* first record has the lowest energy of all.
C7_EnergyNonDecreasing ==
    /\ \A i \in 1..(Len(iter) - 1) : iter[i + 1].energy >= iter[i].energy
    /\ (script = SCHED /\ pc = 43 /\ iter # <<>>) =>
           \A r \in solution : \A q \in Range(iter) : r.energy <= q.energy \/ r \in Range(iter)
    /\ (script = SCHED /\ pc = 62 /\ Len(iter) = Cardinality(response)) =>
           \A r \in response : iter[1].energy <= r.energy

\* C7's case: the remote loop iterates over records of different energy
C7_Witness ==
    /\ script = SCHED
    /\ pc = 62
    /\ Len(iter) >= 2
    /\ iter[1].energy < iter[Len(iter)].energy

\* sum of num_occurrences over a set of records
OccurrencesOf(rs) == SumOver(rs, [r \in rs |-> r.num_occurrences])

\* C10: in the remote loop total adds up the occurrences of every record
\* passed over, whatever its energy, so after the loop it is the sum over the
\* whole response; a line is printed for a record exactly when its energy is
\* min_energy; and min_energy stays the first energy of the exact solver's
\* result, whatever the response holds.
C10_TotalCountsEveryRecord ==
    (script = SCHED /\ pc > 61) =>
        LET done == IF pc = 62 THEN Consumed(Data(response)) ELSE response
            classical == {r \in solution : r.energy = min_energy}
            found == {r \in done : r.energy = min_energy}
        IN /\ total = OccurrencesOf(done)
           /\ min_energy = Head(Data(solution)).energy
           /\ pc \in 62..69 => nprinted = 1 + Cardinality(classical) + Cardinality(found)
           /\ (pc = 62 /\ lastline[1] = "found") =>
                  \E r \in found : lastline = <<"found", r.num_occurrences, Describe(r.sample)>>
           /\ pc = 69 => total = OccurrencesOf(response)
           /\ pc = 70 => lastline = <<"Total occurrences: ", OccurrencesOf(response)>>

\* C10's case: the remote loop is over, no record of the response had the
\* lowest energy, so no line was printed, and total is the full sum
C10_Witness ==
    /\ script = SCHED
    /\ pc = 69
    /\ \A r \in response : r.energy # min_energy
    /\ Cardinality(response) >= 2
    /\ nprinted = 5
    /\ total = OccurrencesOf(response)
    /\ total > 0

---------------------------------------------------------------------------
(* Properties of Multiple-Gate_Circuit.py *)

ExternalVars == {"a", "b", "c", "d", "z"}
AuxiliaryVars == {"not1", "or2", "and3", "or4", "and5", "not6"}

\* logic_circuit on the external variables of sample s
CircuitHolds(s) ==
    Truthy(logic_circuit(PyInt(s["a"]), PyInt(s["b"]), PyInt(s["c"]), PyInt(s["d"]),
                         PyInt(s["z"])))

\* the assignments of the auxiliary variables under which the gates cs hold
\* together with the external assignment e
Completions(cs, e) == {x \in Assignments(AuxiliaryVars) : CspCheck(cs, e @@ x)}

\* C4: the two formulations of the circuit agree.  With the single constraint
\* of line 18 in the CSP, it holds on an external assignment exactly when some
\* assignment of the auxiliary variables satisfies the seven gates; with the
\* seven gates in the CSP, they can be completed exactly when logic_circuit is
\* true, and then in exactly one way; every a, b, c, d has exactly one z, so
\* 16 external assignments satisfy the circuit.  A record the sampler returns
\* passes csp.check only if logic_circuit is true of it.
C4_FormulationsAgree ==
    script = CIRC =>
        /\ pc = 25 =>
               \A e \in Assignments(ExternalVars) :
                   CspCheck(csp, e) <=> Completions(GateCsp, e) # {}
        /\ pc = 35 =>
               /\ CspVariables(csp) = ExternalVars \cup AuxiliaryVars
               /\ \A e \in Assignments(ExternalVars) :
                      /\ CircuitHolds(e) <=> Completions(csp, e) # {}
                      /\ Cardinality(Completions(csp, e)) <= 1
               /\ \A i \in Assignments({"a", "b", "c", "d"}) :
                      Cardinality({z \in Bit : CircuitHolds(i @@ ("z" :> z))}) = 1
               /\ Cardinality({e \in Assignments(ExternalVars) : CircuitHolds(e)}) = 16
        /\ pc \in 48..50 =>
               \A r \in response : CspCheck(csp, r.sample) => CircuitHolds(r.sample)

\* C4's case: both formulations are built and the sampler has returned a
\* record that satisfies the gates and one on which logic_circuit is false
C4_Witness ==
    /\ script = CIRC
    /\ pc = 50
    /\ Cardinality(csp) = 7
    /\ \E r \in response : CspCheck(csp, r.sample) /\ CircuitHolds(r.sample)
    /\ \E r \in response : ~CircuitHolds(r.sample)

RECURSIVE EntriesOf(_, _)
\* the entries the records rs put on data, in order
EntriesOf(rs, cs) ==
    IF rs = <<>> THEN <<>>
    ELSE [i \in 1..Head(rs).num_occurrences |->
             <<Head(rs).sample, Head(rs).energy,
               IF CspCheck(cs, Head(rs).sample) THEN "1" ELSE "0">>]
         \o EntriesOf(Tail(rs), cs)

\* number of entries of data with tag t
Tagged(t) == Cardinality({i \in 1..Len(data) : data[i][3] = t})

\* what holds of the counters and of data after every pass of the
\* classification loop
C9_Counters ==
    (script = CIRC /\ pc \in 50..71) =>
        LET all == Data(response)
            done == SubSeq(all, 1, Len(all) - Len(iter))
        IN /\ valid + invalid = Len(data)
           /\ Len(data) = SumOver(1..Len(done), [i \in 1..Len(done) |-> done[i].num_occurrences])
           /\ Tagged("1") = valid
           /\ Tagged("0") = invalid
           /\ data = EntriesOf(done, csp)
           /\ DOMAIN figure # {} =>
                  /\ Cardinality({i \in 1..Len(data) : figure.c[i] = "y"}) = valid
                  /\ Cardinality({i \in 1..Len(data) : figure.c[i] = "r"}) = invalid
                  /\ \A i \in 1..Len(data) : figure.y[i] = data[i][2]

\* a pass of the classification loop over a record
ClassifiesRecord == script = CIRC /\ pc = 50 /\ status = "running" /\ iter # <<>>

\* C9 as stated: after every pass valid + invalid = len(data) = the sum of the
\* occurrences passed over, the tags of data count valid and invalid, every
\* record contributes num_occurrences entries tagged by csp.check, and
\* exactly one of valid and invalid changes in a pass
C9_ExactlyOneChanges ==
    /\ []C9_Counters
    /\ [][ClassifiesRecord => (valid' # valid) # (invalid' # invalid)]_vars

\* C9, amended: after every pass valid + invalid = len(data) = the sum of the
\* occurrences passed over, the tags of data count valid and invalid, and
\* every record contributes num_occurrences entries tagged by csp.check; a
\* pass over a record with num_occurrences > 0 changes exactly one of valid
\* and invalid (valid iff csp.check holds), a pass over a record with
\* num_occurrences = 0 changes neither.
C9_AtMostOneChanges ==
    /\ []C9_Counters
    /\ [][ClassifiesRecord =>
             /\ Head(iter).num_occurrences > 0 =>
                    /\ (valid' # valid) # (invalid' # invalid)
                    /\ valid' # valid <=> CspCheck(csp, Head(iter).sample)
             /\ Head(iter).num_occurrences = 0 => UNCHANGED <<valid, invalid, data>>
             /\ Len(data') = Len(data) + Head(iter).num_occurrences]_vars

\* C9's case: the loop has passed over valid and invalid records and the
\* scatter plot is drawn
C9_Witness ==
    /\ script = CIRC
    /\ pc = 71
    /\ valid > 0
    /\ invalid > 0
    /\ Cardinality(response) = 3
    /\ DOMAIN figure # {}

---------------------------------------------------------------------------
(* Properties of every script *)

\* C5: no script retries or recovers from a failed call.  The sampler
\* constructions and sample calls issued are in program order, each line at
\* most once; a run that failed did so at the call issued last and takes no
\* further step; no step takes back a printed line.  When the remote sample
\* call of Constrained_Scheduling.py fails the classical lines are printed
\* and "Total occurrences" is not.
C5_FailureEndsTheRun ==
    /\ [](/\ \A i \in 1..(Len(calls) - 1) : calls[i] < calls[i + 1]
          /\ status = "failed" => (calls # <<>> /\ calls[Len(calls)] = pc /\ err # "none")
          /\ status # "failed" => err = "none"
          /\ (script = SCHED /\ status = "failed" /\ pc = 56) =>
                 /\ nprinted >= 2
                 /\ lastline[1] = "solution")
    /\ [][/\ status = "failed" => UNCHANGED vars
          /\ nprinted' >= nprinted
          /\ status' = "failed" => (nprinted' = nprinted /\ lastline' = lastline)]_vars

\* C5's case: the remote sample call of Constrained_Scheduling.py has failed
\* after the classical solutions were printed
C5_Witness ==
    /\ script = SCHED
    /\ status = "failed"
    /\ pc = 56
    /\ calls = <<33, 34, 53, 56>>
    /\ nprinted = 5

====
